---- MODULE Spec2Model ----
(***************************************************************************)
(* Model of invokeai/backend/util/devices.py: selection of the torch       *)
(* device, of the numeric precision, of the dtype and autocast context,    *)
(* and normalisation of device identifiers.                                *)
(*                                                                         *)
(* Python strings that the code parses or searches (device strings,        *)
(* hardware names, device types) are sequences of one-character strings.   *)
(* Precision names and dtypes, which are only compared and passed on, are  *)
(* TLA+ strings.                                                           *)
(***************************************************************************)
EXTENDS Integers, Sequences, FiniteSets, TLC

\* ------------------------------------------------------------------ bounds
\* largest number of CUDA devices the runtime reports
MaxGpus == 2
\* largest explicit device index appearing in a device identifier
MaxIndex == 1

\* ------------------------------------------------------- string literals
Str_auto == <<"a","u","t","o">>
Str_cpu  == <<"c","p","u">>
Str_cuda == <<"c","u","d","a">>
Str_mps  == <<"m","p","s">>
Str_meta == <<"m","e","t","a">>
Colon    == ":"
Digits   == <<"0","1","2","3","4","5","6","7","8","9">>

Str_GeForceGTX == <<"G","e","F","o","r","c","e"," ","G","T","X"," ">>
Str_GTX1660 == Str_GeForceGTX \o <<"1","6","6","0">>
Str_GTX1650 == Str_GeForceGTX \o <<"1","6","5","0">>
Str_NVIDIA  == <<"N","V","I","D","I","A"," ">>

\* hardware names the runtime may report for a CUDA device
HardwareNames ==
  { Str_NVIDIA \o Str_GTX1660 \o <<" ","T","i">>,
    Str_GTX1650,
    Str_NVIDIA \o <<"G","e","F","o","r","c","e"," ","R","T","X"," ","3","0","9","0">>,
    Str_GeForceGTX \o <<"1","6","5">> }

\* a device identifier without an index (torch.device.index is None)
NoIndex == -1

\* the values of the PRECISION literal of the configuration
PRECISION == {"auto", "autocast", "float32", "float16", "bfloat16"}

\* ------------------------------------------------------- torch.device
RECURSIVE IntStr(_)
IntStr(n) == IF n < 10 THEN <<Digits[n + 1]>> ELSE IntStr(n \div 10) \o <<Digits[(n % 10) + 1]>>

DigitVal(c) == CHOOSE d \in 0..9 : Digits[d + 1] = c

RECURSIVE ParseInt(_)
ParseInt(s) ==
  IF Len(s) = 0 THEN 0
  ELSE 10 * ParseInt(SubSeq(s, 1, Len(s) - 1)) + DigitVal(s[Len(s)])

\* position of the first ":" in s, 0 when there is none
ColonPos(s) ==
  IF \E i \in 1..Len(s) : s[i] = Colon
  THEN CHOOSE i \in 1..Len(s) : s[i] = Colon /\ \A j \in 1..(i - 1) : s[j] # Colon
  ELSE 0

\* torch.device(str): "type" or "type:index"
torch_device_str(s) ==
  LET p == ColonPos(s)
  IN  IF p = 0
      THEN [type |-> s, index |-> NoIndex]
      ELSE [type |-> SubSeq(s, 1, p - 1), index |-> ParseInt(SubSeq(s, p + 1, Len(s)))]

CPU_DEVICE  == torch_device_str(Str_cpu)
CUDA_DEVICE == torch_device_str(Str_cuda)
MPS_DEVICE  == torch_device_str(Str_mps)

\* the Optional[torch.device] value None
NoDevice == [type |-> <<>>, index |-> NoIndex]

\* ------------------------------------------------------- input domains
DeviceTypes == {Str_cpu, Str_cuda, Str_mps, Str_meta}
Indexes     == {NoIndex} \cup (0..MaxIndex)
Devices     == [type : DeviceTypes, index : Indexes]

\* explicit device strings: "cpu", "cuda", "mps", "cuda:0", "cuda:1", ...
ExplicitDeviceStrings ==
  {Str_cpu, Str_cuda, Str_mps}
    \cup { t \o <<Colon>> \o IntStr(i) : t \in {Str_cpu, Str_cuda, Str_mps}, i \in 0..MaxIndex }

\* values of config.device: "auto", "cpu", "cuda", "mps", "cuda:0", "cuda:1", ...
ConfigDevices ==
  {Str_auto, Str_cpu, Str_cuda, Str_mps}
    \cup { Str_cuda \o <<Colon>> \o IntStr(i) : i \in 0..MaxIndex }

\* the CUDA devices of the runtime: a sequence of hardware names
GpuLists == UNION { [1..n -> HardwareNames] : n \in 0..MaxGpus }

VARIABLES
  config,         \* get_config(): [device, precision]
  gpus,           \* hardware names of the runtime's CUDA devices, by index
  current,        \* torch.cuda.current_device()
  has_mps,        \* hasattr(torch.backends, "mps")
  mps_available,  \* torch.backends.mps.is_available()
  call            \* the last call made into the module and its outcome

vars == <<config, gpus, current, has_mps, mps_available, call>>
env  == <<config, gpus, has_mps, mps_available>>

\* ------------------------------------------------------- runtime probes
cuda_is_available(g) == Len(g) > 0

\* torch.cuda.get_device_name(device): raises without a usable CUDA device
get_device_name(device, g, cur) ==
  LET idx == IF device.index = NoIndex THEN cur ELSE device.index
  IN  IF Len(g) = 0 \/ idx >= Len(g)
      THEN [ok |-> FALSE, name |-> <<>>]
      ELSE [ok |-> TRUE, name |-> g[idx + 1]]

\* Python's `needle in hay` on strings
Contains(needle, hay) ==
  \E i \in 1..(Len(hay) - Len(needle) + 1) :
     SubSeq(hay, i, i + Len(needle) - 1) = needle

\* ------------------------------------------------------- the functions
\* mutant: probes MPS before CUDA
choose_torch_device_mps_first(cfg, g, hasMps, mpsAvail) ==
  IF cfg.device = Str_auto
  THEN IF hasMps /\ mpsAvail THEN torch_device_str(Str_mps)
       ELSE IF cuda_is_available(g) THEN torch_device_str(Str_cuda)
       ELSE CPU_DEVICE
  ELSE torch_device_str(cfg.device)

\* mutant: an explicit CUDA device is probed too and falls back to the CPU
choose_torch_device_probing(cfg, g, hasMps, mpsAvail) ==
  IF cfg.device = Str_auto
  THEN IF cuda_is_available(g) THEN torch_device_str(Str_cuda)
       ELSE IF hasMps /\ mpsAvail THEN torch_device_str(Str_mps)
       ELSE CPU_DEVICE
  ELSE IF torch_device_str(cfg.device).type = Str_cuda /\ ~cuda_is_available(g)
       THEN CPU_DEVICE
       ELSE torch_device_str(cfg.device)

choose_torch_device(cfg, g, hasMps, mpsAvail) ==
  IF cfg.device = Str_auto
  THEN IF cuda_is_available(g) THEN torch_device_str(Str_cuda)
       ELSE IF hasMps /\ mpsAvail THEN torch_device_str(Str_mps)
       ELSE CPU_DEVICE
  ELSE torch_device_str(cfg.device)

\* mutant: an explicit user preference is honoured before the limited-support check
choose_precision_user_first(device, cfg, g, cur) ==
  IF device.type = Str_cuda
  THEN LET dn == get_device_name(device, g, cur)
       IN  IF ~dn.ok THEN [ok |-> FALSE, value |-> "raised"]
           ELSE IF cfg.precision # "auto" /\ cfg.precision # "autocast"
                THEN [ok |-> TRUE, value |-> cfg.precision]
           ELSE IF Contains(Str_GTX1660, dn.name) \/ Contains(Str_GTX1650, dn.name)
                THEN [ok |-> TRUE, value |-> "float32"]
           ELSE [ok |-> TRUE, value |-> "float16"]
  ELSE IF device.type = Str_mps
  THEN IF cfg.precision = "auto" \/ cfg.precision = "autocast"
       THEN [ok |-> TRUE, value |-> "float16"]
       ELSE [ok |-> TRUE, value |-> cfg.precision]
  ELSE [ok |-> TRUE, value |-> "float32"]

\* mutant: no branch for MPS devices, which take the CPU fallback
choose_precision_no_mps(device, cfg, g, cur) ==
  IF device.type = Str_cuda
  THEN LET dn == get_device_name(device, g, cur)
       IN  IF ~dn.ok THEN [ok |-> FALSE, value |-> "raised"]
           ELSE IF Contains(Str_GTX1660, dn.name) \/ Contains(Str_GTX1650, dn.name)
                THEN [ok |-> TRUE, value |-> "float32"]
           ELSE IF cfg.precision = "auto" \/ cfg.precision = "autocast"
                THEN [ok |-> TRUE, value |-> "float16"]
           ELSE [ok |-> TRUE, value |-> cfg.precision]
  ELSE [ok |-> TRUE, value |-> "float32"]

\* mutant: the fallback honours an explicit user preference
choose_precision_fallback_user(device, cfg, g, cur) ==
  IF device.type = Str_cuda
  THEN LET dn == get_device_name(device, g, cur)
       IN  IF ~dn.ok THEN [ok |-> FALSE, value |-> "raised"]
           ELSE IF Contains(Str_GTX1660, dn.name) \/ Contains(Str_GTX1650, dn.name)
                THEN [ok |-> TRUE, value |-> "float32"]
           ELSE IF cfg.precision = "auto" \/ cfg.precision = "autocast"
                THEN [ok |-> TRUE, value |-> "float16"]
           ELSE [ok |-> TRUE, value |-> cfg.precision]
  ELSE IF device.type = Str_mps
  THEN IF cfg.precision = "auto" \/ cfg.precision = "autocast"
       THEN [ok |-> TRUE, value |-> "float16"]
       ELSE [ok |-> TRUE, value |-> cfg.precision]
  ELSE IF cfg.precision = "auto" \/ cfg.precision = "autocast"
       THEN [ok |-> TRUE, value |-> "float32"]
       ELSE [ok |-> TRUE, value |-> cfg.precision]

\* mutant: only "auto" is resolved, "autocast" is passed on as a preference
choose_precision_auto_only(device, cfg, g, cur) ==
  IF device.type = Str_cuda
  THEN LET dn == get_device_name(device, g, cur)
       IN  IF ~dn.ok THEN [ok |-> FALSE, value |-> "raised"]
           ELSE IF Contains(Str_GTX1660, dn.name) \/ Contains(Str_GTX1650, dn.name)
                THEN [ok |-> TRUE, value |-> "float32"]
           ELSE IF cfg.precision = "auto"
                THEN [ok |-> TRUE, value |-> "float16"]
           ELSE [ok |-> TRUE, value |-> cfg.precision]
  ELSE IF device.type = Str_mps
  THEN IF cfg.precision = "auto"
       THEN [ok |-> TRUE, value |-> "float16"]
       ELSE [ok |-> TRUE, value |-> cfg.precision]
  ELSE [ok |-> TRUE, value |-> "float32"]

choose_precision(device, cfg, g, cur) ==
  IF device.type = Str_cuda
  THEN LET dn == get_device_name(device, g, cur)
       IN  IF ~dn.ok THEN [ok |-> FALSE, value |-> "raised"]
           ELSE IF Contains(Str_GTX1660, dn.name) \/ Contains(Str_GTX1650, dn.name)
                THEN [ok |-> TRUE, value |-> "float32"]
           ELSE IF cfg.precision = "auto" \/ cfg.precision = "autocast"
                THEN [ok |-> TRUE, value |-> "float16"]
           ELSE [ok |-> TRUE, value |-> cfg.precision]
  ELSE IF device.type = Str_mps
  THEN IF cfg.precision = "auto" \/ cfg.precision = "autocast"
       THEN [ok |-> TRUE, value |-> "float16"]
       ELSE [ok |-> TRUE, value |-> cfg.precision]
  ELSE [ok |-> TRUE, value |-> "float32"]

\* mutant: bfloat16 is not recognised and becomes single precision
dtype_of_no_bfloat16(precision) ==
  IF precision = "float16" THEN "torch.float16"
  ELSE "torch.float32"

\* the mapping at the end of torch_dtype
dtype_of(precision) ==
  IF precision = "float16" THEN "torch.float16"
  ELSE IF precision = "bfloat16" THEN "torch.bfloat16"
  ELSE "torch.float32"

\* `device or choose_torch_device()`
dtype_device(device, cfg, g, hasMps, mpsAvail) ==
  IF device # NoDevice THEN device ELSE choose_torch_device(cfg, g, hasMps, mpsAvail)

torch_dtype(device, cfg, g, cur, hasMps, mpsAvail) ==
  LET d == dtype_device(device, cfg, g, hasMps, mpsAvail)
      p == choose_precision(d, cfg, g, cur)
  IN  IF ~p.ok THEN [ok |-> FALSE, value |-> "raised"]
      ELSE [ok |-> TRUE, value |-> dtype_of(p.value)]

\* mutant: bfloat16 gets the autocast context as well
choose_autocast_bfloat16(precision) ==
  IF precision = "autocast" \/ precision = "float16" \/ precision = "bfloat16"
  THEN "autocast" ELSE "nullcontext"

choose_autocast(precision) ==
  IF precision = "autocast" \/ precision = "float16" THEN "autocast" ELSE "nullcontext"

\* the Union[str, torch.device] argument of normalize_device
StrArg(s) == [kind |-> "str", str |-> s, dev |-> NoDevice]
DevArg(d) == [kind |-> "device", str |-> <<>>, dev |-> d]

\* torch.device(device): parses a string, returns a torch.device as it is
torch_device(x) == IF x.kind = "str" THEN torch_device_str(x.str) ELSE x.dev

\* mutant: device 0 instead of the runtime's current device
normalize_device_zero(x, g, cur) ==
  LET device == torch_device(x)
  IN  IF device.index = NoIndex
      THEN IF device.type = Str_cuda
           THEN IF cuda_is_available(g)
                THEN [ok |-> TRUE, dev |-> [type |-> device.type, index |-> 0]]
                ELSE [ok |-> FALSE, dev |-> NoDevice]
           ELSE [ok |-> TRUE, dev |-> device]
      ELSE [ok |-> TRUE, dev |-> device]

\* mutant: a CUDA device gets the current index whether or not it has one
normalize_device_always(x, g, cur) ==
  LET device == torch_device(x)
  IN  IF device.type = Str_cuda
      THEN IF cuda_is_available(g)
           THEN [ok |-> TRUE, dev |-> [type |-> device.type, index |-> cur]]
           ELSE [ok |-> FALSE, dev |-> NoDevice]
      ELSE [ok |-> TRUE, dev |-> device]

\* torch.cuda.current_device() raises when the runtime has no CUDA device
normalize_device(x, g, cur) ==
  LET device == torch_device(x)
  IN  IF device.index = NoIndex
      THEN IF device.type = Str_cuda
           THEN IF cuda_is_available(g)
                THEN [ok |-> TRUE, dev |-> [type |-> device.type, index |-> cur]]
                ELSE [ok |-> FALSE, dev |-> NoDevice]
           ELSE [ok |-> TRUE, dev |-> device]
      ELSE [ok |-> TRUE, dev |-> device]

\* ------------------------------------------------------- the call record
\* op     the function called ("idle" before the first call)
\* dev    the torch.device argument (NoDevice when absent)
\* str    the string argument of normalize_device (<<>> when absent)
\* prec   the precision argument of choose_autocast ("" when absent)
\* cur    current_device() of the runtime when the call was made
\* name   hardware name the runtime reported for the device (<<>> if none)
\* ldev   local `device` of torch_dtype, lprec its local `precision`
\* orig   for the second normalize_device: the device given to the first
\* ok     the call returned (FALSE: it raised)
\* rdev   a returned torch.device, rval a returned string-like value
NoCall ==
  [op |-> "idle", dev |-> NoDevice, str |-> <<>>, prec |-> "", cur |-> 0,
   name |-> <<>>, ldev |-> NoDevice, lprec |-> "", orig |-> NoDevice, ok |-> TRUE,
   rdev |-> NoDevice, rval |-> ""]

Init ==
  /\ config \in [device : ConfigDevices, precision : PRECISION]
  /\ gpus \in GpuLists
  /\ current = 0
  /\ has_mps \in BOOLEAN
  /\ mps_available \in (IF has_mps THEN BOOLEAN ELSE {FALSE})
  /\ call = NoCall

\* The functions keep no state of their own: a behaviour makes one call from
\* an arbitrary configuration and runtime (call.op = "idle" is the caller
\* before its call), and normalize_device may then be applied to its result.
ChooseTorchDevice ==
  /\ call.op = "idle"
  /\ call' = [NoCall EXCEPT !.op = "choose_torch_device", !.cur = current,
                !.rdev = choose_torch_device(config, gpus, has_mps, mps_available)]
  /\ UNCHANGED <<env, current>>

ChoosePrecision ==
  \E d \in Devices :
    /\ call.op = "idle"
    /\ LET r == choose_precision(d, config, gpus, current)
       IN  call' = [NoCall EXCEPT !.op = "choose_precision", !.dev = d, !.cur = current,
                      !.name = get_device_name(d, gpus, current).name,
                      !.ok = r.ok, !.rval = r.value]
    /\ UNCHANGED <<env, current>>

TorchDtype ==
  \E d \in Devices \cup {NoDevice} :
    /\ call.op = "idle"
    /\ LET ld == dtype_device(d, config, gpus, has_mps, mps_available)
           lp == choose_precision(ld, config, gpus, current)
           r  == torch_dtype(d, config, gpus, current, has_mps, mps_available)
       IN  call' = [NoCall EXCEPT !.op = "torch_dtype", !.dev = d, !.cur = current,
                      !.name = get_device_name(ld, gpus, current).name,
                      !.ldev = ld, !.lprec = lp.value,
                      !.ok = r.ok, !.rval = r.value]
    /\ UNCHANGED <<env, current>>

ChooseAutocast ==
  \E p \in PRECISION :
    /\ call.op = "idle"
    /\ call' = [NoCall EXCEPT !.op = "choose_autocast", !.prec = p, !.cur = current,
                  !.rval = choose_autocast(p)]
    /\ UNCHANGED <<env, current>>

NormalizeDevice ==
  \E x \in {StrArg(s) : s \in ExplicitDeviceStrings} \cup {DevArg(d) : d \in Devices} :
    /\ call.op = "idle"
    /\ LET r == normalize_device(x, gpus, current)
       IN  call' = [NoCall EXCEPT !.op = "normalize_device", !.dev = x.dev, !.str = x.str,
                      !.cur = current, !.ok = r.ok, !.rdev = r.dev]
    /\ UNCHANGED <<env, current>>

\* a caller passes the device it got from normalize_device through it again
NormalizeAgain ==
  /\ call.op = "normalize_device"
  /\ call.ok
  /\ LET r == normalize_device(DevArg(call.rdev), gpus, current)
     IN  call' = [NoCall EXCEPT !.op = "normalize_device_again", !.dev = call.rdev,
                    !.orig = torch_device([kind |-> IF call.str # <<>> THEN "str" ELSE "device",
                                           str |-> call.str, dev |-> call.dev]),
                    !.cur = current, !.ok = r.ok, !.rdev = r.dev]
  /\ UNCHANGED <<env, current>>

\* the application (or torch.cuda.set_device) selects another CUDA device
SetDevice ==
  \E i \in 0..(Len(gpus) - 1) :
    /\ i # current
    /\ current' = i
    /\ UNCHANGED <<env, call>>

Next ==
  \/ ChooseTorchDevice
  \/ ChoosePrecision
  \/ TorchDtype
  \/ ChooseAutocast
  \/ NormalizeDevice
  \/ NormalizeAgain
  \/ SetDevice

Spec == Init /\ [][Next]_vars
\* ------------------------------------------------------- properties
\* str(torch.device): "type" or "type:index"
DeviceStr(d) ==
  IF d.index = NoIndex THEN d.type ELSE d.type \o <<Colon>> \o IntStr(d.index)

CudaAvailable == Len(gpus) > 0
MpsAvailable  == has_mps /\ mps_available

IsLimitedName(name) == Contains(Str_GTX1660, name) \/ Contains(Str_GTX1650, name)

ResolvedPrecisions == {"float32", "float16", "bfloat16"}

\* C1: with config.device = "auto", choose_torch_device returns the first
\* available backend in the order CUDA, MPS, CPU: cuda whenever CUDA is
\* available, mps only when CUDA is unavailable and MPS is available, and
\* the CPU exactly when neither is available.
C1_AutoPriority ==
  (call.op = "choose_torch_device" /\ config.device = Str_auto) =>
    /\ call.ok
    /\ CudaAvailable => call.rdev = [type |-> Str_cuda, index |-> NoIndex]
    /\ (~CudaAvailable /\ MpsAvailable) => call.rdev = [type |-> Str_mps, index |-> NoIndex]
    /\ call.rdev.type = Str_mps => (~CudaAvailable /\ MpsAvailable)
    /\ call.rdev = [type |-> Str_cpu, index |-> NoIndex] <=> (~CudaAvailable /\ ~MpsAvailable)

\* "auto" with CUDA unavailable and MPS available gave mps
C1_Witness ==
  /\ call.op = "choose_torch_device"
  /\ config.device = Str_auto
  /\ ~CudaAvailable
  /\ MpsAvailable
  /\ call.rdev.type = Str_mps

\* C2: with an explicit config.device, choose_torch_device returns exactly
\* that device (its string form is the configured string), whatever
\* accelerators are available.
C2_ExplicitDevice ==
  (call.op = "choose_torch_device" /\ config.device # Str_auto) =>
    /\ call.ok
    /\ DeviceStr(call.rdev) = config.device
    /\ config.device \in {Str_cpu, Str_cuda, Str_mps} =>
          call.rdev = [type |-> config.device, index |-> NoIndex]

\* an explicit "cuda" was returned although the runtime has no CUDA device
C2_Witness ==
  /\ call.op = "choose_torch_device"
  /\ config.device = Str_cuda
  /\ ~CudaAvailable
  /\ call.rdev = [type |-> Str_cuda, index |-> NoIndex]

\* C3: for a cuda device whose hardware name contains "GeForce GTX 1660" or
\* "GeForce GTX 1650", choose_precision returns float32 for every
\* configured precision.
C3_LimitedSupport ==
  (call.op = "choose_precision" /\ call.dev.type = Str_cuda /\ IsLimitedName(call.name)) =>
    /\ call.ok
    /\ call.rval = "float32"

\* a GTX 1660 Ti with an explicit float16 preference got float32
C3_Witness ==
  /\ call.op = "choose_precision"
  /\ call.dev.type = Str_cuda
  /\ Contains(Str_GTX1660, call.name)
  /\ config.precision = "float16"
  /\ call.rval = "float32"

\* C4: for a cuda device whose hardware name is not on the limited-support
\* list, and for every mps device, choose_precision returns float16 when
\* the configured precision is auto or autocast, and the configured
\* precision otherwise.
C4_AcceleratorPrecision ==
  (/\ call.op = "choose_precision"
   /\ \/ call.dev.type = Str_cuda /\ call.ok /\ ~IsLimitedName(call.name)
      \/ call.dev.type = Str_mps) =>
    /\ call.ok
    /\ config.precision \in {"auto", "autocast"} => call.rval = "float16"
    /\ config.precision \notin {"auto", "autocast"} => call.rval = config.precision

\* an mps device with an explicit bfloat16 preference got bfloat16
C4_Witness ==
  /\ call.op = "choose_precision"
  /\ call.dev.type = Str_mps
  /\ config.precision = "bfloat16"
  /\ call.rval = "bfloat16"

\* C5: for a device that is neither cuda nor mps, choose_precision returns
\* float32 for every configured precision.
C5_FallbackFloat32 ==
  (call.op = "choose_precision" /\ call.dev.type \notin {Str_cuda, Str_mps}) =>
    /\ call.ok
    /\ call.rval = "float32"

\* a cpu device with an explicit float16 preference got float32
C5_Witness ==
  /\ call.op = "choose_precision"
  /\ call.dev.type = Str_cpu
  /\ config.precision = "float16"
  /\ call.rval = "float32"

\* C6: whatever choose_precision returns is float32, float16 or bfloat16,
\* never one of the aliases auto and autocast.
C6_ResolvedPrecision ==
  (call.op = "choose_precision" /\ call.ok) => call.rval \in ResolvedPrecisions

\* the alias autocast was resolved for a cuda device with full float16 support
C6_Witness ==
  /\ call.op = "choose_precision"
  /\ call.ok
  /\ config.precision = "autocast"
  /\ call.dev.type = Str_cuda
  /\ ~IsLimitedName(call.name)
  /\ call.rval = "float16"

\* C7: torch_dtype uses the given device, or choose_torch_device's result
\* when none is given, and maps the precision choose_precision returns for
\* it: float16 to torch.float16, bfloat16 to torch.bfloat16, anything else
\* to torch.float32.
C7_TorchDtype ==
  (call.op = "torch_dtype") =>
    LET d == IF call.dev # NoDevice THEN call.dev
             ELSE choose_torch_device(config, gpus, has_mps, mps_available)
        p == choose_precision(d, config, gpus, call.cur)
    IN  /\ call.ldev = d
        /\ call.ok = p.ok
        /\ call.ok =>
             /\ call.lprec = p.value
             /\ p.value = "float16" => call.rval = "torch.float16"
             /\ p.value = "bfloat16" => call.rval = "torch.bfloat16"
             /\ p.value \notin {"float16", "bfloat16"} => call.rval = "torch.float32"

\* no device given, an explicit bfloat16 preference on the chosen mps device
C7_Witness ==
  /\ call.op = "torch_dtype"
  /\ call.dev = NoDevice
  /\ call.ldev.type = Str_mps
  /\ call.ok
  /\ call.lprec = "bfloat16"
  /\ call.rval = "torch.bfloat16"

\* C8: choose_autocast returns autocast exactly for the precisions autocast
\* and float16, and nullcontext for auto, float32 and bfloat16.
C8_Autocast ==
  (call.op = "choose_autocast") =>
    /\ call.rval = "autocast" <=> call.prec \in {"autocast", "float16"}
    /\ call.rval = "nullcontext" <=> call.prec \in {"auto", "float32", "bfloat16"}

\* bfloat16 got the no-op context
C8_Witness ==
  /\ call.op = "choose_autocast"
  /\ call.prec = "bfloat16"
  /\ call.rval = "nullcontext"

\* the device normalize_device was given, after torch.device(device)
NormalizeInput ==
  IF call.str # <<>> THEN torch_device_str(call.str) ELSE call.dev

\* C9: normalize_device returns a device of the type it was given; a cuda
\* device without an index gains the runtime's current-device index, a cuda
\* device with an index keeps it, a cpu or mps device is returned as it is;
\* so every cuda device returned has an index.
C9_Normalize ==
  (call.op = "normalize_device" /\ call.ok) =>
    /\ call.rdev.type = NormalizeInput.type
    /\ (NormalizeInput.type = Str_cuda /\ NormalizeInput.index = NoIndex) =>
          call.rdev.index = call.cur
    /\ (NormalizeInput.type = Str_cuda /\ NormalizeInput.index # NoIndex) =>
          call.rdev.index = NormalizeInput.index
    /\ NormalizeInput.type \in {Str_cpu, Str_mps} => call.rdev = NormalizeInput
    /\ (call.str # <<>> /\ NormalizeInput.type \in {Str_cpu, Str_mps}) =>
          DeviceStr(call.rdev) = call.str
    /\ call.rdev.type = Str_cuda => call.rdev.index \in Nat

\* the string "cuda" became cuda:1 while device 1 was the current device
C9_Witness ==
  /\ call.op = "normalize_device"
  /\ call.ok
  /\ call.str = Str_cuda
  /\ call.cur = 1
  /\ call.rdev = [type |-> Str_cuda, index |-> 1]

\* C10: normalize_device is idempotent: applied to its own result it returns
\* that result, also when the runtime's current device has changed since.
C10_Idempotent ==
  (call.op = "normalize_device_again") =>
    /\ call.ok
    /\ call.rdev = call.dev

\* an index-less cuda device was normalised, the current device changed, and
\* the second normalisation kept the index fixed by the first
C10_Witness ==
  /\ call.op = "normalize_device_again"
  /\ call.orig = [type |-> Str_cuda, index |-> NoIndex]
  /\ call.cur # call.dev.index
  /\ call.rdev = call.dev
====
